---- MODULE Spec2Model ----
(***************************************************************************)
(* Model of the PrismSwap router's swap-operation executor                  *)
(* (contracts/prismswap_router/src/operations.rs) and of the asset helpers  *)
(* of the prismswap package (packages/prismswap/src/asset.rs).              *)
(*                                                                          *)
(* Every entry point is a stateless handler: it reads the chain through     *)
(* the querier and returns a result.  A behaviour of the model is one call: *)
(* Init draws the call (entry point, arguments, and the answers the         *)
(* collaborators will give), the action named after the entry point runs    *)
(* it and stores what it returned.                                          *)
(***************************************************************************)
EXTENDS Integers, Sequences, FiniteSets, TLC

VARIABLES pc, call, ret

vars == <<pc, call, ret>>

(***************************************************************************)
(* Bounds                                                                   *)
(***************************************************************************)
MaxAmount == 1

MaxWordLen == 7

MaxAddrLen == 4

(***************************************************************************)
(* Rust values: Result, Option                                              *)
(***************************************************************************)
Ok(v) == [ok |-> TRUE, v |-> v]

Err(e) == [ok |-> FALSE, err |-> e]

None == [some |-> FALSE]

Some(x) == [some |-> TRUE, v |-> x]

(***************************************************************************)
(* The chain as the router sees it                                          *)
(***************************************************************************)
ContractAddr == "router"

Senders == {ContractAddr, "user"}

FactoryAddr == "factory"

Denoms == {"uusd", "uluna"}

Tokens == {"token1", "token2"}

Recipients == {"recipient"}

Amounts == (0..MaxAmount) \cup {1000000}

Taxes == (0..(MaxAmount + 1)) \cup {1000}

FailModes == {"none", "balance", "tax", "pair", "config", "addr"}

\* AssetInfo of the router: NativeToken { denom } | Token { contract_addr }
NativeToken(denom) == [tag |-> "native_token", id |-> denom]

Token(contract_addr) == [tag |-> "token", id |-> contract_addr]

AssetInfos == {NativeToken(d) : d \in Denoms} \cup {Token(t) : t \in Tokens}

\* SwapOperation: NativeSwap { offer_denom, ask_denom } | PrismSwap { offer_asset_info, ask_asset_info }
NativeSwap(offer_denom, ask_denom) ==
    [tag |-> "native_swap", offer_denom |-> offer_denom, ask_denom |-> ask_denom]

PrismSwap(offer_asset_info, ask_asset_info) ==
    [tag |-> "prism_swap", offer_asset_info |-> offer_asset_info,
     ask_asset_info |-> ask_asset_info]

SwapOperations ==
    {NativeSwap(o, a) : o \in Denoms, a \in Denoms}
        \cup {PrismSwap(o, a) : o \in AssetInfos, a \in AssetInfos}

\* What the collaborators answer during one call: the router's holdings in
\* the bank module and in each token contract, the tax the treasury
\* computes, and which lookup (if any) fails.
Queriers ==
    [bank : [Denoms -> Amounts], cw20 : [Tokens -> Amounts], tax : Taxes, fail : FailModes]

(***************************************************************************)
(* Collaborators: prismswap::querier, Asset::compute_tax, the config item   *)
(* and the host's address validation                                        *)
(***************************************************************************)
\* Only the router's own holdings are tracked; any other account holds 0.
query_balance(q, account_addr, denom) ==
    IF q.fail = "balance" THEN Err("query_failure")
    ELSE IF account_addr = ContractAddr THEN Ok(q.bank[denom]) ELSE Ok(0)

query_token_balance(q, contract_addr, account_addr) ==
    IF q.fail = "balance" THEN Err("query_failure")
    ELSE IF account_addr = ContractAddr THEN Ok(q.cw20[contract_addr]) ELSE Ok(0)

\* The transfer tax of a native asset is whatever the treasury answers; a
\* contract token pays none.
compute_tax(q, asset) ==
    IF asset.info.tag = "token" THEN Ok(0)
    ELSE IF q.fail = "tax" THEN Err("query_failure")
    ELSE Ok(q.tax)

CONFIG_load(q) ==
    IF q.fail = "config" THEN Err("not_found") ELSE Ok([factory |-> FactoryAddr])

api_addr_validate(q, human) ==
    IF q.fail = "addr" THEN Err("invalid_address") ELSE Ok(human)

\* The registry keeps one pool per unordered pair of distinct assets.
PoolIndex(asset_info) ==
    CASE asset_info.id \in {"uusd", "native"} -> 1
      [] asset_info.id = "uluna" -> 2
      [] asset_info.id = "token1" -> 3
      [] OTHER -> 4

PoolTable ==
    << <<"none", "pool12", "pool13", "pool14">>,
       <<"pool12", "none", "pool23", "pool24">>,
       <<"pool13", "pool23", "none", "pool34">>,
       <<"pool14", "pool24", "pool34", "none">> >>

Pools == {"pool12", "pool13", "pool14", "pool23", "pool24", "pool34"}

query_pair_info(q, factory_contract, asset_infos) ==
    IF q.fail = "pair" \/ factory_contract # FactoryAddr \/ asset_infos[1] = asset_infos[2]
    THEN Err("query_failure")
    ELSE Ok([asset_infos |-> asset_infos,
             contract_addr |-> PoolTable[PoolIndex(asset_infos[1])][PoolIndex(asset_infos[2])],
             liquidity_token |-> "lp"])

(***************************************************************************)
(* Uint128::checked_sub                                                     *)
(***************************************************************************)
checked_sub(a, b) == IF b > a THEN Err("overflow_sub") ELSE Ok(a - b)

(***************************************************************************)
(* Messages and their wire encoding (serde JSON inside a Binary)            *)
(***************************************************************************)
Coin(denom, amount) == [denom |-> denom, amount |-> amount]

Asset(info, amount) == [info |-> info, amount |-> amount]

create_swap_msg(offer_coin, ask_denom) ==
    [type |-> "terra_swap", offer_coin |-> offer_coin, ask_denom |-> ask_denom]

create_swap_send_msg(to_address, offer_coin, ask_denom) ==
    [type |-> "terra_swap_send", to_address |-> to_address,
     offer_coin |-> offer_coin, ask_denom |-> ask_denom]

WasmExecute(contract_addr, funds, msg) ==
    [type |-> "wasm_execute", contract_addr |-> contract_addr, funds |-> funds, msg |-> msg]

\* PairExecuteMsg::Swap { offer_asset, belief_price, max_spread, to }
PairSwap(offer_asset, belief_price, max_spread, to) ==
    [variant |-> "swap", offer_asset |-> offer_asset, belief_price |-> belief_price,
     max_spread |-> max_spread, to |-> to]

\* Cw20ExecuteMsg::Send { contract, amount, msg }
Cw20Send(contract, amount, msg) ==
    [variant |-> "send", contract |-> contract, amount |-> amount, msg |-> msg]

JNull == [j |-> "null"]

JString(s) == [j |-> "string", s |-> s]

\* the JSON string holding the decimal text of an integer
JDigits(ds) == [j |-> "string", digits |-> ds]

JObject(fields) == [j |-> "object", fields |-> fields]

RECURSIVE ToDigits(_)
ToDigits(n) == IF n < 10 THEN <<n>> ELSE Append(ToDigits(n \div 10), n % 10)

RECURSIVE FromDigits(_)
FromDigits(ds) ==
    IF Len(ds) = 0 THEN 0
    ELSE 10 * FromDigits(SubSeq(ds, 1, Len(ds) - 1)) + ds[Len(ds)]

AssetInfoToJson(info) ==
    CASE info.tag = "native_token" -> JObject([native_token |-> JObject([denom |-> JString(info.id)])])
      [] info.tag = "token" -> JObject([token |-> JObject([contract_addr |-> JString(info.id)])])
      [] info.tag = "native" -> JObject([native |-> JString(info.id)])
      [] info.tag = "cw20" -> JObject([cw20 |-> JString(info.id)])

JsonToAssetInfo(json) ==
    CASE "native_token" \in DOMAIN json.fields ->
            [tag |-> "native_token", id |-> json.fields.native_token.fields.denom.s]
      [] "token" \in DOMAIN json.fields ->
            [tag |-> "token", id |-> json.fields.token.fields.contract_addr.s]
      [] "native" \in DOMAIN json.fields -> [tag |-> "native", id |-> json.fields.native.s]
      [] "cw20" \in DOMAIN json.fields -> [tag |-> "cw20", id |-> json.fields.cw20.s]

AssetToJson(asset) ==
    JObject([info |-> AssetInfoToJson(asset.info), amount |-> JDigits(ToDigits(asset.amount))])

JsonToAsset(json) ==
    Asset(JsonToAssetInfo(json.fields.info), FromDigits(json.fields.amount.digits))

\* Decimal is carried as its integer numerator and written as decimal text
DecimalOptionToJson(opt) == IF opt.some THEN JDigits(ToDigits(opt.v)) ELSE JNull

JsonToDecimalOption(json) == IF json.j = "null" THEN None ELSE Some(FromDigits(json.digits))

StringOptionToJson(opt) == IF opt.some THEN JString(opt.v) ELSE JNull

JsonToStringOption(json) == IF json.j = "null" THEN None ELSE Some(json.s)

\* to_binary(&PairExecuteMsg::Swap {..})
PairSwapToBinary(msg) ==
    [binary |-> JObject([swap |-> JObject([
        offer_asset |-> AssetToJson(msg.offer_asset),
        belief_price |-> DecimalOptionToJson(msg.belief_price),
        max_spread |-> DecimalOptionToJson(msg.max_spread),
        to |-> StringOptionToJson(msg.to)])])]

\* from_binary::<PairExecuteMsg>, as the pool does on receipt
PairSwapFromBinary(bin) ==
    LET body == bin.binary.fields.swap.fields
    IN  PairSwap(JsonToAsset(body.offer_asset), JsonToDecimalOption(body.belief_price),
                 JsonToDecimalOption(body.max_spread), JsonToStringOption(body.to))

\* to_binary(&Cw20ExecuteMsg::Send {..}); the inner Binary travels as a string
Cw20SendToBinary(msg) ==
    [binary |-> JObject([send |-> JObject([
        contract |-> JString(msg.contract),
        amount |-> JDigits(ToDigits(msg.amount)),
        msg |-> [j |-> "string", base64 |-> msg.msg]])])]

\* from_binary::<Cw20ExecuteMsg>, as the token contract does on receipt
Cw20SendFromBinary(bin) ==
    LET body == bin.binary.fields.send.fields
    IN  Cw20Send(body.contract.s, FromDigits(body.amount.digits), body.msg.base64)

IsSendEnvelope(bin) == "send" \in DOMAIN bin.binary.fields

IsSwapPayload(bin) == "swap" \in DOMAIN bin.binary.fields

(***************************************************************************)
(* contracts/prismswap_router/src/operations.rs                             *)
(***************************************************************************)
\* asset_into_swap_msg with the two addresses of the token branch exchanged
asset_into_swap_msg_swapped_addrs(q, pair_contract, offer_asset, max_spread, to) ==
    IF offer_asset.info.tag = "native_token"
    THEN LET tax == compute_tax(q, offer_asset)
         IN  IF ~tax.ok THEN tax
             ELSE LET amount == checked_sub(offer_asset.amount, tax.v)
                  IN  IF ~amount.ok THEN amount
                      ELSE Ok(WasmExecute(
                              pair_contract,
                              <<Coin(offer_asset.info.id, amount.v)>>,
                              PairSwapToBinary(PairSwap(Asset(offer_asset.info, amount.v),
                                                        None, max_spread, to))))
    ELSE Ok(WasmExecute(
            pair_contract,
            <<>>,
            Cw20SendToBinary(Cw20Send(
                offer_asset.info.id,
                offer_asset.amount,
                PairSwapToBinary(PairSwap(offer_asset, None, max_spread, to))))))

\* asset_into_swap_msg declaring the amount before tax in the payload
asset_into_swap_msg_stale_offer(q, pair_contract, offer_asset, max_spread, to) ==
    IF offer_asset.info.tag = "native_token"
    THEN LET tax == compute_tax(q, offer_asset)
         IN  IF ~tax.ok THEN tax
             ELSE LET amount == checked_sub(offer_asset.amount, tax.v)
                  IN  IF ~amount.ok THEN amount
                      ELSE Ok(WasmExecute(
                              pair_contract,
                              <<Coin(offer_asset.info.id, amount.v)>>,
                              PairSwapToBinary(PairSwap(offer_asset, None, max_spread, to))))
    ELSE Ok(WasmExecute(
            offer_asset.info.id,
            <<>>,
            Cw20SendToBinary(Cw20Send(
                pair_contract,
                offer_asset.amount,
                PairSwapToBinary(PairSwap(offer_asset, None, max_spread, to))))))

asset_into_swap_msg(q, pair_contract, offer_asset, max_spread, to) ==
    IF offer_asset.info.tag = "native_token"
    THEN \* deduct tax first
         LET tax == compute_tax(q, offer_asset)
         IN  IF ~tax.ok THEN tax
             ELSE LET amount == checked_sub(offer_asset.amount, tax.v)
                  IN  IF ~amount.ok THEN amount
                      ELSE Ok(WasmExecute(
                              pair_contract,
                              <<Coin(offer_asset.info.id, amount.v)>>,
                              PairSwapToBinary(PairSwap(Asset(offer_asset.info, amount.v),
                                                        None, max_spread, to))))
    ELSE Ok(WasmExecute(
            offer_asset.info.id,
            <<>>,
            Cw20SendToBinary(Cw20Send(
                pair_contract,
                offer_asset.amount,
                PairSwapToBinary(PairSwap(offer_asset, None, max_spread, to))))))

\* the NativeSwap arm sending the whole balance to the recipient, tax not deducted
native_swap_messages_no_tax(q, env, operation, to) ==
    LET amount == query_balance(q, env.contract.address, operation.offer_denom)
    IN  IF ~amount.ok THEN amount
        ELSE IF to.some
             THEN Ok(<<create_swap_send_msg(to.v, Coin(operation.offer_denom, amount.v),
                                            operation.ask_denom)>>)
             ELSE Ok(<<create_swap_msg(Coin(operation.offer_denom, amount.v),
                                       operation.ask_denom)>>)

\* the NativeSwap arm deducting the tax on every hop, not only on the last
native_swap_messages_tax_every_hop(q, env, operation, to) ==
    LET amount == query_balance(q, env.contract.address, operation.offer_denom)
    IN  IF ~amount.ok THEN amount
        ELSE LET asset == Asset(NativeToken(operation.offer_denom), amount.v)
                 tax == compute_tax(q, asset)
             IN  IF ~tax.ok THEN tax
                 ELSE LET amount2 == checked_sub(amount.v, tax.v)
                      IN  IF ~amount2.ok THEN amount2
                          ELSE IF to.some
                               THEN Ok(<<create_swap_send_msg(
                                            to.v,
                                            Coin(operation.offer_denom, amount2.v),
                                            operation.ask_denom)>>)
                               ELSE Ok(<<create_swap_msg(
                                            Coin(operation.offer_denom, amount2.v),
                                            operation.ask_denom)>>)

\* the message list of the NativeSwap arm
native_swap_messages(q, env, operation, to) ==
    LET amount == query_balance(q, env.contract.address, operation.offer_denom)
    IN  IF ~amount.ok THEN amount
        ELSE IF to.some
             THEN \* the operation is last and requires send: deduct tax from the offer coin
                  LET asset == Asset(NativeToken(operation.offer_denom), amount.v)
                      tax == compute_tax(q, asset)
                  IN  IF ~tax.ok THEN tax
                      ELSE LET amount2 == checked_sub(amount.v, tax.v)
                           IN  IF ~amount2.ok THEN amount2
                               ELSE Ok(<<create_swap_send_msg(
                                            to.v,
                                            Coin(operation.offer_denom, amount2.v),
                                            operation.ask_denom)>>)
             ELSE Ok(<<create_swap_msg(Coin(operation.offer_denom, amount.v),
                                       operation.ask_denom)>>)

\* the balance lookup of the PrismSwap arm
offer_balance(q, env, offer_asset_info) ==
    IF offer_asset_info.tag = "native_token"
    THEN query_balance(q, env.contract.address, offer_asset_info.id)
    ELSE LET contract_addr == api_addr_validate(q, offer_asset_info.id)
         IN  IF ~contract_addr.ok THEN contract_addr
             ELSE query_token_balance(q, contract_addr.v, env.contract.address)

\* the message list of the PrismSwap arm
prism_swap_messages(q, env, operation, to) ==
    LET config == CONFIG_load(q)
    IN  IF ~config.ok THEN config
        ELSE LET pair_info == query_pair_info(q, config.v.factory,
                                  <<operation.offer_asset_info, operation.ask_asset_info>>)
             IN  IF ~pair_info.ok THEN pair_info
                 ELSE LET amount == offer_balance(q, env, operation.offer_asset_info)
                      IN  IF ~amount.ok THEN amount
                          ELSE LET offer_asset == Asset(operation.offer_asset_info, amount.v)
                                   msg == asset_into_swap_msg(q, pair_info.v.contract_addr,
                                                              offer_asset, None, to)
                               IN  IF ~msg.ok THEN msg ELSE Ok(<<msg.v>>)

\* the check of the sender left out
authorized_any_sender(env, info) == TRUE

authorized(env, info) == env.contract.address = info.sender

execute_swap_operation(q, env, info, operation, to) ==
    IF ~authorized(env, info) THEN Err("unauthorized")
    ELSE LET messages == IF operation.tag = "native_swap"
                         THEN native_swap_messages(q, env, operation, to)
                         ELSE prism_swap_messages(q, env, operation, to)
         IN  IF ~messages.ok THEN messages
             ELSE Ok([messages |-> messages.v])

(***************************************************************************)
(* packages/prismswap/src/asset.rs                                          *)
(***************************************************************************)
\* AssetInfo of cw_asset: Native(denom) | Cw20(contract_addr)
Native(denom) == [tag |-> "native", id |-> denom]

Cw20(contract_addr) == [tag |-> "cw20", id |-> contract_addr]

PackageAssetInfos == {Native(d) : d \in Denoms} \cup {Cw20(t) : t \in Tokens}

\* into_swap_msg forgetting to attach the native coins
into_swap_msg_no_funds(self, pair_contract, max_spread, to) ==
    IF self.info.tag = "native"
    THEN Ok(WasmExecute(
            pair_contract,
            <<>>,
            PairSwapToBinary(PairSwap(Asset(self.info, self.amount), None, max_spread, to))))
    ELSE Ok(WasmExecute(
            self.info.id,
            <<>>,
            Cw20SendToBinary(Cw20Send(
                pair_contract,
                self.amount,
                PairSwapToBinary(PairSwap(self, None, max_spread, to))))))

\* into_swap_msg losing the recipient inside the token envelope
into_swap_msg_drops_to(self, pair_contract, max_spread, to) ==
    IF self.info.tag = "native"
    THEN Ok(WasmExecute(
            pair_contract,
            <<Coin(self.info.id, self.amount)>>,
            PairSwapToBinary(PairSwap(Asset(self.info, self.amount), None, max_spread, to))))
    ELSE Ok(WasmExecute(
            self.info.id,
            <<>>,
            Cw20SendToBinary(Cw20Send(
                pair_contract,
                self.amount,
                PairSwapToBinary(PairSwap(self, None, max_spread, None))))))

\* Asset::into_swap_msg takes no querier
into_swap_msg(self, pair_contract, max_spread, to) ==
    IF self.info.tag = "native"
    THEN Ok(WasmExecute(
            pair_contract,
            <<Coin(self.info.id, self.amount)>>,
            PairSwapToBinary(PairSwap(Asset(self.info, self.amount), None, max_spread, to))))
    ELSE Ok(WasmExecute(
            self.info.id,
            <<>>,
            Cw20SendToBinary(Cw20Send(
                pair_contract,
                self.amount,
                PairSwapToBinary(PairSwap(self, None, max_spread, to))))))

\* message_info.funds.iter().find(|x| x.denom == *denom)
RECURSIVE find_denom(_, _)
find_denom(funds, denom) ==
    IF Len(funds) = 0 THEN None
    ELSE IF Head(funds).denom = denom THEN Some(Head(funds))
    ELSE find_denom(Tail(funds), denom)

MismatchError == "Native token balance mismatch between the argument and the transferred"

\* the check accepting any declared amount when no coin of the denomination is attached
assert_sent_ignores_missing(self, message_info) ==
    IF self.info.tag = "native"
    THEN LET coin == find_denom(message_info.funds, self.info.id)
         IN  IF coin.some
             THEN IF self.amount = coin.v.amount THEN Ok("unit") ELSE Err(MismatchError)
             ELSE Ok("unit")
    ELSE Ok("unit")

assert_sent_native_token_balance(self, message_info) ==
    IF self.info.tag = "native"
    THEN LET coin == find_denom(message_info.funds, self.info.id)
         IN  IF coin.some
             THEN IF self.amount = coin.v.amount THEN Ok("unit") ELSE Err(MismatchError)
             ELSE IF self.amount = 0 THEN Ok("unit") ELSE Err(MismatchError)
    ELSE Ok("unit")

(***************************************************************************)
(* Text: a string is the sequence of its characters                         *)
(***************************************************************************)
LowerLetters ==
    <<"a", "b", "c", "d", "e", "f", "g", "h", "i", "j", "k", "l", "m",
      "n", "o", "p", "q", "r", "s", "t", "u", "v", "w", "x", "y", "z">>

UpperLetters ==
    <<"A", "B", "C", "D", "E", "F", "G", "H", "I", "J", "K", "L", "M",
      "N", "O", "P", "Q", "R", "S", "T", "U", "V", "W", "X", "Y", "Z">>

Range(seq) == {seq[i] : i \in 1..Len(seq)}

IndexOf(c, seq) == CHOOSE i \in 1..Len(seq) : seq[i] = c

\* U+00DF LATIN SMALL LETTER SHARP S, whose upper-case form is "SS"
SharpS == "sharp_s"

\* char::to_uppercase: one character may map to several
char_to_uppercase(c) ==
    IF c \in Range(LowerLetters) THEN <<UpperLetters[IndexOf(c, LowerLetters)]>>
    ELSE IF c = SharpS THEN <<"S", "S">>
    ELSE <<c>>

char_to_lowercase(c) ==
    IF c \in Range(UpperLetters) THEN <<LowerLetters[IndexOf(c, UpperLetters)]>>
    ELSE <<c>>

RECURSIVE to_uppercase(_)
to_uppercase(str) ==
    IF Len(str) = 0 THEN <<>>
    ELSE char_to_uppercase(Head(str)) \o to_uppercase(Tail(str))

RECURSIVE to_lowercase(_)
to_lowercase(str) ==
    IF Len(str) = 0 THEN <<>>
    ELSE char_to_lowercase(Head(str)) \o to_lowercase(Tail(str))

\* str.chars().take(n).collect()
take(str, n) == SubSeq(str, 1, IF Len(str) < n THEN Len(str) ELSE n)

\* the host validates the format: a prefix character and a minimum length
api_addr_validate_str(api, addr) ==
    IF Len(addr) >= api.min_len /\ Len(addr) > 0 /\ addr[1] = api.prefix THEN Ok(addr)
    ELSE Err("invalid_address")

LowercaseError == "Address should be lowercase"

\* lower-casing the input instead of rejecting it
addr_validate_lowercasing(api, addr) == api_addr_validate_str(api, to_lowercase(addr))

addr_validate_to_lower(api, addr) ==
    IF to_lowercase(addr) # addr THEN Err(LowercaseError)
    ELSE api_addr_validate_str(api, addr)

TOKEN_SYMBOL_MAX_LENGTH == 6

\* token addresses and symbols are texts here, like the denominations
LpTokens == {<<"t", "1">>, <<"t", "2">>}

query_token_symbol(q, contract_addr) ==
    IF q.fail = contract_addr THEN Err("query_failure") ELSE Ok(q.symbol[contract_addr])

short_symbol(q, asset_info) ==
    IF asset_info.tag = "native" THEN Ok(take(asset_info.id, TOKEN_SYMBOL_MAX_LENGTH))
    ELSE LET token_symbol == query_token_symbol(q, asset_info.id)
         IN  IF ~token_symbol.ok THEN token_symbol
             ELSE Ok(take(token_symbol.v, TOKEN_SYMBOL_MAX_LENGTH))

format_lp_token_name(q, asset_infos) ==
    LET s0 == short_symbol(q, asset_infos[1])
    IN  IF ~s0.ok THEN s0
        ELSE LET s1 == short_symbol(q, asset_infos[2])
             IN  IF ~s1.ok THEN s1
                 ELSE Ok(to_uppercase(s0.v \o <<"-">> \o s1.v \o <<"-", "L", "P">>))

(***************************************************************************)
(* The calls                                                                *)
(***************************************************************************)
Env == [contract |-> [address |-> ContractAddr]]

MessageInfo(sender, funds) == [sender |-> sender, funds |-> funds]

Recipient == {None} \cup {Some(r) : r \in Recipients}

MaxSpreads == {None, Some(5), Some(50)}

\* the chain as a message builder sees it: only the tax answer matters
TaxQueriers ==
    [bank : {[d \in Denoms |-> 0]}, cw20 : {[t \in Tokens |-> 0]},
     tax : Taxes, fail : {"none", "tax"}]

ExecuteCalls ==
    [fn : {"execute_swap_operation"}, q : Queriers, sender : Senders,
     operation : SwapOperations, to : Recipient]

AssetIntoSwapMsgCalls ==
    [fn : {"asset_into_swap_msg"}, q : TaxQueriers, pair_contract : {"pool13", "pool24"},
     offer_asset : {Asset(i, a) : i \in AssetInfos, a \in Amounts},
     max_spread : MaxSpreads, to : Recipient]

IntoSwapMsgCalls ==
    [fn : {"into_swap_msg"}, q : TaxQueriers, pair_contract : {"pool13", "pool24"},
     self : {Asset(i, a) : i \in PackageAssetInfos, a \in Amounts},
     max_spread : MaxSpreads, to : Recipient]

\* attached funds: the ledger hands over at most one coin per denomination
FundLists ==
    {<<>>}
        \cup {<<Coin(d, a)>> : d \in Denoms, a \in Amounts}
        \cup {<<Coin(p[1], a1), Coin(p[2], a2)>> :
                p \in {pp \in Denoms \X Denoms : pp[1] # pp[2]},
                a1 \in Amounts, a2 \in Amounts}

AssertSentCalls ==
    [fn : {"assert_sent_native_token_balance"},
     self : {Asset(i, a) : i \in PackageAssetInfos, a \in Amounts},
     funds : FundLists]

\* address texts: every short text over three characters, and two long ones
AddrAlphabet == {"t", "T", "1"}

Terra1abcUpper == <<"T", "e", "r", "r", "a", "1", "a", "b", "c">>

Terra1abcLower == <<"t", "e", "r", "r", "a", "1", "a", "b", "c">>

AddrStrings ==
    UNION {[1..n -> AddrAlphabet] : n \in 0..MaxAddrLen} \cup {Terra1abcUpper, Terra1abcLower}

HostApis == [prefix : {"t", "T"}, min_len : {0, 3}]

AddrValidateCalls == [fn : {"addr_validate_to_lower"}, api : HostApis, addr : AddrStrings]

\* Token symbols are whatever the token contract answers: the prefixes of
\* two long texts (mixed case, a digit, a dash, a sharp s) and the two names
\* of the protocol.  Denominations are the ASCII ones among them, as the
\* ledger only knows ASCII denominations.
Uluna == <<"u", "l", "u", "n", "a">>

Xprism == <<"x", "p", "r", "i", "s", "m">>

LongWords ==
    { <<"x", "P", "r", "i", "s", "m", "T", "o", "k", "e", "n">>,
      <<SharpS, "u", "-", "1", SharpS, "l", "P", SharpS, "a", "b">> }

Words == {take(w, n) : w \in LongWords, n \in 0..MaxWordLen} \cup {Uluna, Xprism}

DenomWords == {w \in Words : SharpS \notin Range(w)}

LpAssetInfos == {Native(w) : w \in DenomWords} \cup {Cw20(t) : t \in LpTokens}

LpQueriers == [symbol : [LpTokens -> Words], fail : {<<>>} \cup LpTokens]

FormatLpCalls ==
    [fn : {"format_lp_token_name"}, q : LpQueriers, asset_infos : LpAssetInfos \X LpAssetInfos]

Init ==
    /\ pc = "ready"
    /\ ret = Err("pending")
    /\ \/ call \in ExecuteCalls
       \/ call \in AssetIntoSwapMsgCalls
       \/ call \in IntoSwapMsgCalls
       \/ call \in AssertSentCalls
       \/ call \in AddrValidateCalls
       \/ call \in FormatLpCalls

Return(value) ==
    /\ ret' = value
    /\ pc' = "done"
    /\ UNCHANGED call

ExecuteSwapOperation ==
    /\ pc = "ready"
    /\ call.fn = "execute_swap_operation"
    /\ Return(execute_swap_operation(call.q, Env, MessageInfo(call.sender, <<>>),
                                     call.operation, call.to))

AssetIntoSwapMsg ==
    /\ pc = "ready"
    /\ call.fn = "asset_into_swap_msg"
    /\ Return(asset_into_swap_msg(call.q, call.pair_contract, call.offer_asset,
                                  call.max_spread, call.to))

IntoSwapMsg ==
    /\ pc = "ready"
    /\ call.fn = "into_swap_msg"
    /\ Return(into_swap_msg(call.self, call.pair_contract, call.max_spread, call.to))

AssertSentNativeTokenBalance ==
    /\ pc = "ready"
    /\ call.fn = "assert_sent_native_token_balance"
    /\ Return(assert_sent_native_token_balance(call.self, MessageInfo("user", call.funds)))

AddrValidateToLower ==
    /\ pc = "ready"
    /\ call.fn = "addr_validate_to_lower"
    /\ Return(addr_validate_to_lower(call.api, call.addr))

FormatLpTokenName ==
    /\ pc = "ready"
    /\ call.fn = "format_lp_token_name"
    /\ Return(format_lp_token_name(call.q, call.asset_infos))

Next ==
    \/ ExecuteSwapOperation
    \/ AssetIntoSwapMsg
    \/ IntoSwapMsg
    \/ AssertSentNativeTokenBalance
    \/ AddrValidateToLower
    \/ FormatLpTokenName

Spec == Init /\ [][Next]_vars

(***************************************************************************)
(* Properties                                                               *)
(***************************************************************************)
Returned(fn) == pc = "done" /\ call.fn = fn

SelfCalled(tag) ==
    /\ Returned("execute_swap_operation")
    /\ call.sender = ContractAddr
    /\ call.operation.tag = tag

\* the pool the registry holds for the operation's pair
RegisteredPool(operation) ==
    PoolTable[PoolIndex(operation.offer_asset_info)][PoolIndex(operation.ask_asset_info)]

\* C1: a call to execute_swap_operation by anyone but the contract itself
\* returns the error "unauthorized" and no message, for every operation,
\* every recipient and every answer (or failure) of the collaborators.
C1_UnauthorizedForNonSelf ==
    (Returned("execute_swap_operation") /\ call.sender # ContractAddr)
        => (~ret.ok /\ ret.err = "unauthorized")

C1_Witness ==
    /\ Returned("execute_swap_operation")
    /\ call.sender = "user"
    /\ call.operation.tag = "prism_swap"
    /\ call.q.fail = "config"
    /\ call.to.some
    /\ ~ret.ok
    /\ ret.err = "unauthorized"

\* C2: a self-called NativeSwap with a recipient, balance and tax queries
\* succeeding, returns exactly one swap-and-send message to the recipient
\* offering balance - tax of offer_denom, and fails with the subtraction
\* overflow (no message) exactly when the tax exceeds the balance.
C2_LastHopDeductsTax ==
    (SelfCalled("native_swap") /\ call.to.some /\ call.q.fail \notin {"balance", "tax"})
        => LET balance == call.q.bank[call.operation.offer_denom]
               tax == call.q.tax
           IN  IF tax > balance
               THEN ~ret.ok /\ ret.err = "overflow_sub"
               ELSE /\ ret.ok
                    /\ Len(ret.v.messages) = 1
                    /\ ret.v.messages[1].type = "terra_swap_send"
                    /\ ret.v.messages[1].to_address = call.to.v
                    /\ ret.v.messages[1].offer_coin
                           = Coin(call.operation.offer_denom, balance - tax)
                    /\ ret.v.messages[1].ask_denom = call.operation.ask_denom

C2_Witness ==
    /\ SelfCalled("native_swap")
    /\ call.to.some
    /\ call.q.fail = "none"
    /\ call.q.bank[call.operation.offer_denom] = 1000000
    /\ call.q.tax = 1000
    /\ ret.ok
    /\ ret.v.messages[1].type = "terra_swap_send"
    /\ ret.v.messages[1].offer_coin.amount = 999000

\* C3: a self-called NativeSwap without a recipient, the balance query
\* succeeding, returns exactly one swap-in-place message offering the whole
\* balance of offer_denom, whatever the tax collaborator would answer, and
\* never fails with the subtraction overflow.
C3_MidChainKeepsFullBalance ==
    (SelfCalled("native_swap") /\ ~call.to.some /\ call.q.fail # "balance")
        => /\ ret.ok
           /\ Len(ret.v.messages) = 1
           /\ ret.v.messages[1].type = "terra_swap"
           /\ ret.v.messages[1].offer_coin
                  = Coin(call.operation.offer_denom, call.q.bank[call.operation.offer_denom])
           /\ ret.v.messages[1].ask_denom = call.operation.ask_denom

C3_Witness ==
    /\ SelfCalled("native_swap")
    /\ ~call.to.some
    /\ call.operation.offer_denom = "uusd"
    /\ call.operation.ask_denom = "uluna"
    /\ call.q.bank["uusd"] = 1000000
    /\ call.q.tax = 1000
    /\ ret.ok
    /\ ret.v.messages[1].type = "terra_swap"
    /\ ret.v.messages[1].offer_coin.amount = 1000000

\* the message is a token "send" to the pool: addressed to the token
\* contract, no funds attached, the envelope naming the pool and the amount
IsTokenSend(msg, token, pool, amount) ==
    /\ msg.type = "wasm_execute"
    /\ msg.contract_addr = token
    /\ msg.funds = <<>>
    /\ IsSendEnvelope(msg.msg)
    /\ Cw20SendFromBinary(msg.msg).contract = pool
    /\ Cw20SendFromBinary(msg.msg).amount = amount

\* C4: for a contract-token offer (a self-called pool swap, or either
\* message builder given a contract-token Asset) the single message goes to
\* the token contract with no funds attached and is a send envelope naming
\* the pool, for the full amount (the full queried balance), whatever the
\* tax collaborator answers.
C4_TokenOfferSendsFullBalance ==
    /\ ( /\ SelfCalled("prism_swap")
         /\ call.operation.offer_asset_info.tag = "token"
         /\ call.operation.offer_asset_info # call.operation.ask_asset_info
         /\ call.q.fail \in {"none", "tax"} )
           => /\ ret.ok
              /\ Len(ret.v.messages) = 1
              /\ IsTokenSend(ret.v.messages[1], call.operation.offer_asset_info.id,
                             RegisteredPool(call.operation),
                             call.q.cw20[call.operation.offer_asset_info.id])
    /\ (Returned("asset_into_swap_msg") /\ call.offer_asset.info.tag = "token")
           => /\ ret.ok
              /\ IsTokenSend(ret.v, call.offer_asset.info.id, call.pair_contract,
                             call.offer_asset.amount)
    /\ (Returned("into_swap_msg") /\ call.self.info.tag = "cw20")
           => /\ ret.ok
              /\ IsTokenSend(ret.v, call.self.info.id, call.pair_contract, call.self.amount)

C4_Witness ==
    /\ SelfCalled("prism_swap")
    /\ call.operation.offer_asset_info = Token("token2")
    /\ call.operation.ask_asset_info = NativeToken("uusd")
    /\ call.q.cw20["token2"] = 1000000
    /\ call.q.tax = 1000
    /\ call.q.fail = "tax"
    /\ ret.ok
    /\ ret.v.messages[1].contract_addr = "token2"
    /\ Cw20SendFromBinary(ret.v.messages[1].msg).amount = 1000000
    /\ Cw20SendFromBinary(ret.v.messages[1].msg).contract = "pool14"

\* the message invokes the pool with exactly one coin attached and a Swap
\* payload declaring the same asset and amount
IsNativePoolSwap(msg, pool, info, amount) ==
    /\ msg.type = "wasm_execute"
    /\ msg.contract_addr = pool
    /\ msg.funds = <<Coin(info.id, amount)>>
    /\ IsSwapPayload(msg.msg)
    /\ PairSwapFromBinary(msg.msg).offer_asset = Asset(info, amount)
    /\ PairSwapFromBinary(msg.msg).belief_price = None

\* C5 as stated: Asset::into_swap_msg, given a native offer of amount a,
\* attaches and declares a - tax(a), and fails with the subtraction overflow
\* when tax(a) > a.
C5_IntoSwapMsgDeductsTax ==
    (Returned("into_swap_msg") /\ call.self.info.tag = "native" /\ call.q.fail = "none")
        => IF call.q.tax > call.self.amount
           THEN ~ret.ok /\ ret.err = "overflow_sub"
           ELSE /\ ret.ok
                /\ IsNativePoolSwap(ret.v, call.pair_contract, call.self.info,
                                    call.self.amount - call.q.tax)

\* C5 amended: Asset::into_swap_msg, given a native offer of amount a,
\* deducts no tax: it always succeeds, and the attached funds and the
\* payload's offer_asset amount both equal a, whatever the tax collaborator
\* would answer.
C5_IntoSwapMsgKeepsAmount ==
    (Returned("into_swap_msg") /\ call.self.info.tag = "native")
        => /\ ret.ok
           /\ IsNativePoolSwap(ret.v, call.pair_contract, call.self.info, call.self.amount)
           /\ PairSwapFromBinary(ret.v.msg).max_spread = call.max_spread
           /\ PairSwapFromBinary(ret.v.msg).to = call.to

C5_Witness ==
    /\ Returned("into_swap_msg")
    /\ call.self = Asset(Native("uusd"), 1)
    /\ call.q.fail = "none"
    /\ call.q.tax = 2
    /\ ret.ok
    /\ ret.v.funds = <<Coin("uusd", 1)>>
    /\ PairSwapFromBinary(ret.v.msg).offer_asset.amount = 1

\* C6: a self-called pool swap of a native offer, all lookups succeeding,
\* returns exactly one message to the pool registered for [offer, ask],
\* with one coin of the offer denom of amount balance - tax attached and a
\* Swap payload declaring that same amount, the recipient forwarded
\* unchanged (given or not); it fails with the subtraction overflow and no
\* message when the tax exceeds the balance.
C6_NativePoolSwapDeductsTax ==
    ( /\ SelfCalled("prism_swap")
      /\ call.operation.offer_asset_info.tag = "native_token"
      /\ call.operation.offer_asset_info # call.operation.ask_asset_info
      /\ call.q.fail = "none" )
        => LET balance == call.q.bank[call.operation.offer_asset_info.id]
               tax == call.q.tax
           IN  IF tax > balance
               THEN ~ret.ok /\ ret.err = "overflow_sub"
               ELSE /\ ret.ok
                    /\ Len(ret.v.messages) = 1
                    /\ IsNativePoolSwap(ret.v.messages[1], RegisteredPool(call.operation),
                                        call.operation.offer_asset_info, balance - tax)
                    /\ PairSwapFromBinary(ret.v.messages[1].msg).to = call.to

C6_Witness ==
    /\ SelfCalled("prism_swap")
    /\ call.operation.offer_asset_info = NativeToken("uluna")
    /\ call.operation.ask_asset_info = Token("token1")
    /\ call.to.some
    /\ call.q.fail = "none"
    /\ call.q.bank["uluna"] = 1000000
    /\ call.q.tax = 1000
    /\ ret.ok
    /\ ret.v.messages[1].contract_addr = "pool23"
    /\ ret.v.messages[1].funds = <<Coin("uluna", 999000)>>
    /\ PairSwapFromBinary(ret.v.messages[1].msg).offer_asset.amount = 999000

\* C7: assert_sent_native_token_balance on a native asset succeeds exactly
\* when the coin attached for its denomination has the declared amount, or
\* no coin of the denomination is attached and the declared amount is zero;
\* every other combination fails with the balance-mismatch error; on a
\* contract token it succeeds for every list of funds.
C7_SentBalanceMatches ==
    Returned("assert_sent_native_token_balance")
        => IF call.self.info.tag = "native"
           THEN LET attached == {i \in 1..Len(call.funds) :
                                    call.funds[i].denom = call.self.info.id}
                IN  /\ ret.ok <=> \/ \E i \in attached :
                                        call.funds[i].amount = call.self.amount
                                  \/ attached = {} /\ call.self.amount = 0
                    /\ ~ret.ok => ret.err = MismatchError
           ELSE ret.ok

C7_Witness ==
    /\ Returned("assert_sent_native_token_balance")
    /\ call.self = Asset(Native("uluna"), 1)
    /\ call.funds = <<Coin("uusd", 0), Coin("uluna", 0)>>
    /\ ~ret.ok
    /\ ret.err = MismatchError

\* decoding the send envelope and then its payload gives back the inputs
RoundTrips(msg, offer_asset, max_spread, to) ==
    /\ IsSendEnvelope(msg.msg)
    /\ IsSwapPayload(Cw20SendFromBinary(msg.msg).msg)
    /\ LET send == Cw20SendFromBinary(msg.msg)
           swap == PairSwapFromBinary(send.msg)
       IN  /\ swap.variant = "swap"
           /\ swap.offer_asset = offer_asset
           /\ swap.max_spread = max_spread
           /\ swap.to = to
           /\ swap.belief_price = None
           /\ send.amount = swap.offer_asset.amount

\* C8: for every contract-token Asset, pool, max_spread and optional
\* recipient, decoding the send envelope of the built message and then the
\* payload inside it gives a Swap whose offer_asset, max_spread and
\* recipient are the inputs, whose belief_price is unset, and the envelope's
\* amount is the offer_asset amount.
C8_TokenSwapRoundTrip ==
    /\ (Returned("into_swap_msg") /\ call.self.info.tag = "cw20")
           => (ret.ok /\ RoundTrips(ret.v, call.self, call.max_spread, call.to))
    /\ (Returned("asset_into_swap_msg") /\ call.offer_asset.info.tag = "token")
           => (ret.ok /\ RoundTrips(ret.v, call.offer_asset, call.max_spread, call.to))

C8_Witness ==
    /\ Returned("into_swap_msg")
    /\ call.self = Asset(Cw20("token1"), 1000000)
    /\ call.max_spread = Some(50)
    /\ call.to = Some("recipient")
    /\ ret.ok
    /\ Cw20SendFromBinary(ret.v.msg).amount = 1000000
    /\ PairSwapFromBinary(Cw20SendFromBinary(ret.v.msg).msg).to = Some("recipient")
    /\ PairSwapFromBinary(Cw20SendFromBinary(ret.v.msg).msg).max_spread = Some(50)

\* the text a name is derived from: the denomination, or the queried symbol
SymbolSource(q, asset_info) ==
    IF asset_info.tag = "native" THEN asset_info.id ELSE q.symbol[asset_info.id]

SymbolQueryFails(q, asset_info) == asset_info.tag = "cw20" /\ q.fail = asset_info.id

\* C9: with the symbol queries succeeding, format_lp_token_name returns
\* "{s0}-{s1}-LP" upper-cased, s_i being the first 6 characters of the
\* denomination or queried symbol, so that each half-symbol segment of the
\* result has at most 6 characters and the result is upper-case; a failed
\* symbol query is returned as the error.
C9_LpNameSegmentsAtMostSix ==
    Returned("format_lp_token_name")
        => IF \E i \in 1..2 : SymbolQueryFails(call.q, call.asset_infos[i])
           THEN ~ret.ok /\ ret.err = "query_failure"
           ELSE LET s0 == take(SymbolSource(call.q, call.asset_infos[1]),
                               TOKEN_SYMBOL_MAX_LENGTH)
                    s1 == take(SymbolSource(call.q, call.asset_infos[2]),
                               TOKEN_SYMBOL_MAX_LENGTH)
                    seg0 == to_uppercase(s0)
                    seg1 == to_uppercase(s1)
                IN  /\ ret.ok
                    /\ ret.v = seg0 \o <<"-">> \o seg1 \o <<"-", "L", "P">>
                    /\ to_uppercase(ret.v) = ret.v
                    /\ Len(seg0) <= TOKEN_SYMBOL_MAX_LENGTH
                    /\ Len(seg1) <= TOKEN_SYMBOL_MAX_LENGTH

\* C10: addr_validate_to_lower fails for every input that differs from its
\* lower-cased form, whatever the host would say of it, and for an input
\* already in lower case returns what the host's validation returns for
\* that same text.
C10_LowercaseThenHost ==
    Returned("addr_validate_to_lower")
        => IF to_lowercase(call.addr) # call.addr
           THEN ~ret.ok /\ ret.err = LowercaseError
           ELSE LET host == api_addr_validate_str(call.api, call.addr)
                IN  /\ ret.ok = host.ok
                    /\ ret.ok => ret.v = call.addr
                    /\ ~ret.ok => ret.err = host.err

C10_Witness ==
    /\ Returned("addr_validate_to_lower")
    /\ call.addr = Terra1abcUpper
    /\ call.api = [prefix |-> "T", min_len |-> 3]
    /\ ~ret.ok
    /\ ret.err = LowercaseError

====
